---- MODULE Spec2Model ----
(***************************************************************************)
(* Patch indexing, sample enumeration, step counting and the streaming     *)
(* batch generators of the medical-segmentation repository                 *)
(* (unet2d/generator.py, unet25d/generator.py).                            *)
(*                                                                         *)
(* Specifications:                                                         *)
(*   Spec      one generator instance returned by a builder, driven by     *)
(*             next() requests; FairSpec is Spec with weak fairness of the *)
(*             running generator code.                                     *)
(*   PureSpec  the pure functions (compute_patch_indices,                  *)
(*             create_patch_index_list, get_number_of_steps,               *)
(*             get_multi_class_labels, convert_data25d, add_data, the      *)
(*             augmentation stage) applied to inputs drawn from bounded    *)
(*             sets.                                                       *)
(*   SplitSpec the split step of the builders over a persisted split.      *)
(*   DuoSpec   two generator instances handed the same list object.        *)
(*   PairSpec  the training and the validation generator of one builder.   *)
(***************************************************************************)
EXTENDS Integers, Sequences, FiniteSets, TLC

VARIABLES
    data_file,   \* the backing store: spatial shape and truth of each record
    build,       \* the builder call that made the generator
    args,        \* the arguments the builder handed to the generator
    num_steps,   \* the step count the builder declared for this generator
    pc,          \* position of the generator: start / begin / drain / yield
    pool,        \* the per-epoch pool being drained (index_list in the code)
    x_list,      \* accumulator of inputs
    y_list,      \* accumulator of targets
    out,         \* the batch handed over at the last yield
    epoch,       \* history: epochs begun so far, counted up to MaxEpochs
    epoch_pool,  \* history: the pool as built at the start of this epoch
    yielded,     \* history: the batches yielded so far in this epoch
    dropped,     \* history: the samples add_data skipped in this epoch
    patch_calls, \* history: compute_patch_indices calls made for this epoch's pool
    call,        \* PureSpec, SplitSpec: the last call, arguments and result
    split_files, \* SplitSpec, PairSpec: the persisted split (None when the files are absent)
    caller_list, \* DuoSpec: the list object the caller handed to both generators
    frames       \* DuoSpec, PairSpec: the frames of the two generator instances

\* What the single generator of Spec and the pure calls leave alone.
sidevars == <<split_files, caller_list, frames>>

vars == <<data_file, build, args, num_steps, pc, pool, x_list, y_list, out,
          epoch, epoch_pool, yielded, dropped, patch_calls, call, sidevars>>

genvars == <<data_file, build, args, num_steps, pc, pool, x_list, y_list, out,
             epoch, epoch_pool, yielded, dropped, patch_calls>>

(***************************************************************************)
(* Bounds of the model.                                                    *)
(***************************************************************************)
MaxBatch == 2      \* batch sizes 1..MaxBatch
MaxPool == 3       \* largest per-epoch pool a generator configuration builds
MaxDepth == 3      \* last spatial extent of the stored volumes
MaxEpochs == 2     \* the epoch counter stops counting here
MaxExtent == 4     \* PureSpec: volume and patch extents 1..MaxExtent
MaxSamples == 7    \* PureSpec: sample counts 0..MaxSamples
MaxLabel == 3      \* PureSpec: label values 0..MaxLabel, n_labels 1..MaxLabel
MaxVoxels == 2     \* PureSpec: voxels of a label map

\* PureSpec with no call drawn.
NoCall == [fn |-> "none", done |-> TRUE]

\* Python's None (an absent patch_shape, start offset or patch origin).
None == <<>>

Max(a, b) == IF a >= b THEN a ELSE b

Range(s) == {s[i] : i \in DOMAIN s}

\* The one element of a singleton set.  {f(x) : x \in {e}} evaluates e once
\* and uses its value wherever f reads x.
The(S) == CHOOSE x \in S : TRUE

\* Concatenation of a sequence of sequences (list.extend in a loop).
RECURSIVE FlattenFrom(_, _)
FlattenFrom(ss, i) ==
    IF i > Len(ss) THEN <<>> ELSE ss[i] \o FlattenFrom(ss, i + 1)

Flatten(ss) == The({FlattenFrom(v, 1) : v \in {ss}})

\* An int overlap stands for the same overlap in every dimension
\* (np.asarray([overlap] * len(image_shape))).
Broadcast(v, n) == [d \in 1..n |-> v]

(***************************************************************************)
(* Patch Index Builder (unet3d.utils.patches, described in spec 4.1).      *)
(***************************************************************************)
\* The step along one dimension; at least 1 so the enumeration advances.
PatchStep(p, ov) == IF p - ov <= 0 THEN 1 ELSE p - ov

\* Enumeration that goes on while the origin, not the whole patch, is inside.
RECURSIVE FittingOriginInside(_, _, _, _)
FittingOriginInside(o, v, p, step) ==
    IF o < v THEN <<o>> \o FittingOriginInside(o + step, v, p, step) ELSE <<>>

\* The origins o, o + step, ... for which the patch still fits: o + p <= v.
RECURSIVE Fitting(_, _, _, _)
Fitting(o, v, p, step) ==
    IF o + p <= v THEN <<o>> \o Fitting(o + step, v, p, step) ELSE <<>>

\* Aggressive mode that adds the clamped origin whether or not the enumerated
\* patches already reach the far edge.
Origins1DRepeatClamp(v, p, ov, st, aggressive) ==
    The({IF aggressive THEN Append(fit, v - p) ELSE fit
            : fit \in {Fitting(st, v, p, PatchStep(p, ov))}})

\* Origins along one dimension; aggressive mode adds the final origin v - p
\* when the enumerated patches leave a remainder before the far edge.
Origins1D(v, p, ov, st, aggressive) ==
    The({IF aggressive /\ (fit = <<>> \/ fit[Len(fit)] + p < v)
         THEN Append(fit, v - p)
         ELSE fit
            : fit \in {Fitting(st, v, p, PatchStep(p, ov))}})

\* Cartesian product of the per-dimension origin lists, last dimension fastest.
RECURSIVE Product(_)
Product(lists) ==
    IF lists = <<>> THEN << <<>> >>
    ELSE The({Flatten([i \in 1..Len(hd) |->
                        [j \in 1..Len(rest) |-> <<hd[i]>> \o rest[j]]])
                : hd \in {Head(lists)}, rest \in {Product(Tail(lists))}})

\* compute_patch_indices(image_shape, patch_shape, overlap, start,
\* is_extract_patch_agressive): [raised, indices].
compute_patch_indices(image_shape, patch_shape, overlap, start, aggressive) ==
    LET n == Len(image_shape)
        st == IF start = None THEN [d \in 1..n |-> 0] ELSE start
    IN  IF ~aggressive /\ \E d \in 1..n : patch_shape[d] > image_shape[d]
        THEN [raised |-> TRUE, indices |-> <<>>]
        ELSE [raised |-> FALSE,
              indices |-> The({Product(lists) : lists \in {[d \in 1..n |->
                  Origins1D(image_shape[d], patch_shape[d], overlap[d], st[d], aggressive)]}})]

RECURSIVE MaxOf(_)
MaxOf(s) == IF s = <<>> THEN 0 ELSE Max(Head(s), MaxOf(Tail(s)))

\* get_random_nd_index(index_max): the tuples it can draw, 0 <= t[d] <= index_max[d].
get_random_nd_index(index_max) ==
    {t \in [1..Len(index_max) -> 0..MaxOf(index_max)] :
        \A d \in 1..Len(index_max) : t[d] <= index_max[d]}

\* np.negative of a drawn tuple.
Negative(t) == [d \in 1..Len(t) |-> 0 - t[d]]

\* One draw of get_random_nd_index per record of the list (none without offset).
Draws(index_list, patch_start_offset) ==
    IF patch_start_offset = None
    THEN {[i \in 1..Len(index_list) |-> None]}
    ELSE [1..Len(index_list) -> get_random_nd_index(patch_start_offset)]

(***************************************************************************)
(* Sample Enumerator: create_patch_index_list of the 2D and 2.5D modules.  *)
(* draws[i] is what get_random_nd_index returned for the i-th record.      *)
(***************************************************************************)
\* itertools.product([index], patches)
Pair(index, patches) ==
    The({[j \in 1..Len(p) |-> <<index, p[j]>>] : p \in {patches}})

PatchesOf(image_shape, patch_shape, patch_overlap, patch_start_offset, draw, aggressive) ==
    compute_patch_indices(image_shape, patch_shape, patch_overlap,
        IF patch_start_offset # None THEN Negative(draw) ELSE None,
        aggressive).indices

\* A list built with every record id taken once.
create_patch_index_list_distinct(index_list, image_shape, patch_shape, patch_overlap, patch_start_offset, draws) ==
    Flatten([i \in 1..Len(index_list) |->
        IF \E h \in 1..(i - 1) : index_list[h] = index_list[i]
        THEN <<>>
        ELSE Pair(index_list[i],
                  PatchesOf(image_shape, patch_shape, patch_overlap,
                            patch_start_offset, draws[i], FALSE))])

\* unet2d/generator.py: is_extract_patch_agressive=False
create_patch_index_list(index_list, image_shape, patch_shape, patch_overlap, patch_start_offset, draws) ==
    Flatten([i \in 1..Len(index_list) |->
        Pair(index_list[i],
             PatchesOf(image_shape, patch_shape, patch_overlap,
                       patch_start_offset, draws[i], FALSE))])

create_patch_index_list25d_lazy(index_list, image_shape, patch_shape, patch_overlap, patch_start_offset, draws) ==
    create_patch_index_list(index_list, image_shape, patch_shape, patch_overlap,
                            patch_start_offset, draws)

\* unet25d/generator.py: is_extract_patch_agressive=True
create_patch_index_list25d(index_list, image_shape, patch_shape, patch_overlap, patch_start_offset, draws) ==
    Flatten([i \in 1..Len(index_list) |->
        Pair(index_list[i],
             PatchesOf(image_shape, patch_shape, patch_overlap,
                       patch_start_offset, draws[i], TRUE))])

(***************************************************************************)
(* Step-Count Estimator (unet3d.generator.get_number_of_steps, spec 4.5).  *)
(***************************************************************************)
get_number_of_steps_floor(n_samples, batch_size) == n_samples \div batch_size

\* Ceiling division.
get_number_of_steps(n_samples, batch_size) ==
    (n_samples + batch_size - 1) \div batch_size

(***************************************************************************)
(* Backing store.  A record's truth is the set of its foreground voxels;   *)
(* a record without foreground is blank.                                   *)
(***************************************************************************)
\* data_file.root.data.shape[-3:]
ImageShape == <<2, 2, MaxDepth>>

Records == 1..MaxPool

DataFiles ==
    {[shape |-> ImageShape,
      truth |-> [r \in Records |-> IF r \in blank THEN {} ELSE {<<0, 0, 0>>}]]
        : blank \in {{}, {1}}}

\* get_patch_from_3d_data on the truth: the foreground voxels inside the patch.
get_patch_from_3d_data(truth, patch_shape, patch_index) ==
    {v \in truth : \A d \in 1..Len(patch_shape) :
        patch_index[d] <= v[d] /\ v[d] < patch_index[d] + patch_shape[d]}

\* get_data_from_file: x stands for the fetched input of the sample, y is
\* the foreground of its target.
get_data_from_file(file, index, patch_shape) ==
    IF patch_shape # None
    THEN [x |-> index,
          y |-> get_patch_from_3d_data(file.truth[index[1]], patch_shape, index[2])]
    ELSE [x |-> index, y |-> file.truth[index]]

\* np.any(truth != 0)
AnyForeground(truth) == truth # {}

(***************************************************************************)
(* add_data_new, add_data: what the two lists are after the call.          *)
(***************************************************************************)
\* unet2d/generator.py add_data_new: the skip_blank test is commented out.
add_data_new(xs, ys, file, index, patch_shape, skip_blank) ==
    LET d == get_data_from_file(file, index, patch_shape)
    IN  [x |-> Append(xs, d.x), y |-> Append(ys, d.y)]

\* add_data with the blank test guarding only the target list.
add_data_unpaired(xs, ys, file, index, patch_shape, skip_blank) ==
    LET d == get_data_from_file(file, index, patch_shape)
    IN  [x |-> Append(xs, d.x),
         y |-> IF ~skip_blank \/ AnyForeground(d.y) THEN Append(ys, d.y) ELSE ys]

\* unet2d/generator.py add_data (augment and permute off).
add_data(xs, ys, file, index, patch_shape, skip_blank) ==
    LET d == get_data_from_file(file, index, patch_shape)
    IN  IF ~skip_blank \/ AnyForeground(d.y)
        THEN [x |-> Append(xs, d.x), y |-> Append(ys, d.y)]
        ELSE [x |-> xs, y |-> ys]

\* unet3d.generator.add_data, which data_generator25d calls: the optional
\* skip-blank filter of spec 4.3.
add_data_unet3d(xs, ys, file, index, patch_shape, skip_blank) ==
    LET d == get_data_from_file(file, index, patch_shape)
    IN  IF ~skip_blank \/ AnyForeground(d.y)
        THEN [x |-> Append(xs, d.x), y |-> Append(ys, d.y)]
        ELSE [x |-> xs, y |-> ys]

\* augment_data(data, truth, affine, flip, scale_deviation) of unet3d.augment,
\* the 3D path of spec 4.4 (flip and scale perturbation on the record's
\* grid): draw "keep" leaves the foreground in the volume, draw "crop" is a
\* scale that moves it out of the volume.
augment_data(d, draw) == IF draw = "crop" THEN [x |-> d.x, y |-> {}] ELSE d

\* The sample is appended whatever its target.
KeepSampleAlways(skip_blank, truth) == TRUE

\* if not skip_blank or np.any(truth != 0)
KeepSample(skip_blank, truth) == ~skip_blank \/ AnyForeground(truth)

\* A test of the first two of the last three extents only.
NotCubeFirstTwo(shape) == shape[Len(shape) - 2] # shape[Len(shape) - 1]

\* data.shape[-3] != data.shape[-2] or data.shape[-2] != data.shape[-1]
NotCube(shape) ==
    shape[Len(shape) - 2] # shape[Len(shape) - 1] \/ shape[Len(shape) - 1] # shape[Len(shape)]

\* add_data with its augment and permute arguments: [raised, x, y, truth],
\* truth the target the blank test saw.  random_permutation_x_y permutes
\* and flips axes: the foreground stays foreground.
add_data_full(xs, ys, file, index, patch_shape, skip_blank, augment, permute, draw) ==
    LET fetched == get_data_from_file(file, index, patch_shape)
        d == IF augment THEN augment_data(fetched, draw) ELSE fetched
        shape == IF patch_shape # None THEN patch_shape ELSE file.shape
    IN  IF permute /\ NotCube(shape)
        THEN [raised |-> "ValueError", x |-> xs, y |-> ys, truth |-> d.y]
        ELSE IF KeepSample(skip_blank, d.y)
             THEN [raised |-> "none", x |-> Append(xs, d.x), y |-> Append(ys, d.y),
                   truth |-> d.y]
             ELSE [raised |-> "none", x |-> xs, y |-> ys, truth |-> d.y]

(***************************************************************************)
(* Counting the samples of an epoch.                                       *)
(***************************************************************************)
\* Number of samples of index_list that add_data keeps.
RECURSIVE CountKept(_, _, _, _)
CountKept(samples, file, patch_shape, skip_blank) ==
    IF samples = <<>> THEN 0
    ELSE (IF Len(add_data(<<>>, <<>>, file, Head(samples), patch_shape, skip_blank).x) > 0
          THEN 1 ELSE 0)
         + CountKept(Tail(samples), file, patch_shape, skip_blank)

\* unet2d/generator.py get_number_of_patches_new: the length of the list.
get_number_of_patches_new(file, index_list, patch_shape, patch_overlap, patch_start_offset, skip_blank, draws) ==
    IF patch_shape # None
    THEN Len(create_patch_index_list(index_list, file.shape, patch_shape,
                                     patch_overlap, patch_start_offset, draws))
    ELSE Len(index_list)

\* unet2d/generator.py get_number_of_patches: counts what add_data keeps.
get_number_of_patches(file, index_list, patch_shape, patch_overlap, patch_start_offset, skip_blank, draws) ==
    IF patch_shape # None
    THEN CountKept(create_patch_index_list(index_list, file.shape, patch_shape,
                                           patch_overlap, patch_start_offset, draws),
                   file, patch_shape, skip_blank)
    ELSE Len(index_list)

\* unet3d.generator.get_number_of_patches, which the 2.5D builder calls: the
\* exhaustive count of spec 4.5 over the Sample Enumerator's pool.
get_number_of_patches_unet3d(file, index_list, patch_shape, patch_overlap, patch_start_offset, skip_blank, draws) ==
    IF patch_shape # None
    THEN CountKept(create_patch_index_list(index_list, file.shape, patch_shape,
                                           patch_overlap, patch_start_offset, draws),
                   file, patch_shape, skip_blank)
    ELSE Len(index_list)

(***************************************************************************)
(* The builders.  b is the builder call: builder, role (which of the two   *)
(* generators is followed), index_list (the list of that role),            *)
(* batch_size, validation_batch_size (0 for None), patch_shape,            *)
(* validation_patch_overlap, training_patch_start_offset, skip_blank and   *)
(* add_data_default (the skip_blank default of unet3d.generator.add_data). *)
(***************************************************************************)
\* if not validation_batch_size: validation_batch_size = batch_size
ValidationBatchSize(b) ==
    IF b.validation_batch_size = 0 THEN b.batch_size ELSE b.validation_batch_size

\* get_training_and_validation_and_testing_generators -> data_generator_new
BuildNew(b) ==
    IF b.role = "training"
    THEN [fn |-> "data_generator_new", index_list |-> b.index_list,
          batch_size |-> b.batch_size, patch_shape |-> b.patch_shape,
          patch_overlap |-> Broadcast(0, Len(ImageShape)),
          patch_start_offset |-> b.training_patch_start_offset,
          skip_blank |-> b.skip_blank]
    ELSE [fn |-> "data_generator_new", index_list |-> b.index_list,
          batch_size |-> ValidationBatchSize(b), patch_shape |-> b.patch_shape,
          patch_overlap |-> Broadcast(b.validation_patch_overlap, Len(ImageShape)),
          patch_start_offset |-> None,
          skip_blank |-> b.skip_blank]

\* get_training_and_validation_generators -> data_generator
BuildGen(b) ==
    IF b.role = "training"
    THEN [fn |-> "data_generator", index_list |-> b.index_list,
          batch_size |-> b.batch_size, patch_shape |-> b.patch_shape,
          patch_overlap |-> Broadcast(0, Len(ImageShape)),
          patch_start_offset |-> b.training_patch_start_offset,
          skip_blank |-> b.skip_blank]
    ELSE [fn |-> "data_generator", index_list |-> b.index_list,
          batch_size |-> ValidationBatchSize(b), patch_shape |-> b.patch_shape,
          patch_overlap |-> Broadcast(b.validation_patch_overlap, Len(ImageShape)),
          patch_start_offset |-> None,
          skip_blank |-> b.skip_blank]

\* train_patch_overlap = valid_patch_overlap = [0, 0, patch_shape[-1] - 1]
Overlap25d(patch_shape) ==
    [d \in 1..Len(patch_shape) |->
        IF d = Len(patch_shape) THEN patch_shape[d] - 1 ELSE 0]

\* get_training_and_validation_and_testing_generators25d -> data_generator25d
Build25d(b) ==
    IF b.role = "training"
    THEN [fn |-> "data_generator25d", index_list |-> b.index_list,
          batch_size |-> b.batch_size, patch_shape |-> b.patch_shape,
          patch_overlap |-> Overlap25d(b.patch_shape),
          patch_start_offset |-> b.training_patch_start_offset,
          skip_blank |-> b.skip_blank]
    ELSE [fn |-> "data_generator25d", index_list |-> b.index_list,
          batch_size |-> ValidationBatchSize(b), patch_shape |-> b.patch_shape,
          patch_overlap |-> Overlap25d(b.patch_shape),
          patch_start_offset |-> None,
          skip_blank |-> b.skip_blank]

Build(b) ==
    CASE b.builder = "new" -> BuildNew(b)
      [] b.builder = "gen" -> BuildGen(b)
      [] b.builder = "g25" -> Build25d(b)

\* num_training_steps / num_validation_steps of the role, as the builder of b
\* computes it; draws are the random starts of this computation.
DeclaredSteps(b, file, draws) ==
    LET g == Build(b)
    IN  CASE b.builder = "new" ->
              get_number_of_steps(
                  get_number_of_patches_new(file, g.index_list, g.patch_shape,
                      g.patch_overlap, g.patch_start_offset, b.skip_blank, draws),
                  g.batch_size)
          [] b.builder = "gen" ->
              get_number_of_steps(
                  get_number_of_patches(file, g.index_list, g.patch_shape,
                      g.patch_overlap, g.patch_start_offset, b.skip_blank, draws),
                  g.batch_size)
          [] b.builder = "g25" ->
              get_number_of_steps(
                  get_number_of_patches_unet3d(file, g.index_list, g.patch_shape,
                      g.patch_overlap, g.patch_start_offset, b.add_data_default, draws),
                  g.batch_size)

(***************************************************************************)
(* The generators data_generator, data_generator_new, data_generator25d.   *)
(* pc: "start" (created, not yet asked), "begin" (top of while True),      *)
(* "drain" (test of the inner while), "yield" (suspended at the yield).    *)
(***************************************************************************)
\* shuffle(index_list): every order it can leave the list in.
Shuffles(list) ==
    LET n == Len(list)
    IN  {[i \in 1..n |-> list[f[i]]] :
            f \in {g \in [1..n -> 1..n] : \A i, j \in 1..n : g[i] = g[j] => i = j}}

\* The list an epoch is built from, with the previous epoch's drained list.
EpochSourceDrained(orig_index_list, drained) == drained

\* orig_index_list = index_list, kept before the loop and read every epoch.
EpochSource(orig_index_list, drained) == orig_index_list

\* One builder call per record whatever patch_shape is.
PatchCallsAlways(g, source) == Len(source)

\* compute_patch_indices calls made to build the pool: one per record in
\* create_patch_index_list, none on the copy.copy branch.
PatchCalls(g, source) == IF g.patch_shape # None THEN Len(source) ELSE 0

\* No split is persisted and no second generator exists.
SideIdle ==
    /\ split_files = None
    /\ caller_list = <<>>
    /\ frames = <<>>

\* The pool of an epoch before the shuffle.
EpochPool(g, source, draws) ==
    IF g.patch_shape # None
    THEN IF g.fn = "data_generator25d"
         THEN create_patch_index_list25d(source, data_file.shape, g.patch_shape,
                                         g.patch_overlap, g.patch_start_offset, draws)
         ELSE create_patch_index_list(source, data_file.shape, g.patch_shape,
                                      g.patch_overlap, g.patch_start_offset, draws)
    ELSE source

\* The add_data call of the generator g on the popped index.
AddData(g, xs, ys, index) ==
    CASE g.fn = "data_generator" ->
            add_data(xs, ys, data_file, index, g.patch_shape, g.skip_blank)
      [] g.fn = "data_generator_new" ->
            add_data_new(xs, ys, data_file, index, g.patch_shape, TRUE)
      [] g.fn = "data_generator25d" ->
            add_data_unet3d(xs, ys, data_file, index, g.patch_shape,
                            build.add_data_default)

\* Yield test that flushes at the end of the pool whatever was accumulated.
YieldNowAtPoolEnd(xs, rest, batch_size) == Len(xs) = batch_size \/ Len(rest) = 0

\* Yield test without the flush of the last partial batch.
YieldNowFullOnly(xs, rest, batch_size) == Len(xs) = batch_size

\* len(x_list) == batch_size or (len(index_list) == 0 and len(x_list) > 0)
YieldNow(xs, rest, batch_size) ==
    Len(xs) = batch_size \/ (Len(rest) = 0 /\ Len(xs) > 0)

\* The accumulator left as it is after a yield.
AfterYieldKept(xs) == xs

\* x_list = list(); y_list = list() after the yield.
AfterYield(xs) == <<>>

\* convert_data / convert_data25d: one stacked entry per accumulated sample.
convert_data(xs, ys) == [x |-> xs, y |-> ys]

\* The first next(): the generator body starts running.
Start ==
    /\ pc = "start"
    /\ pc' = "begin"
    /\ UNCHANGED <<data_file, build, args, num_steps, pool, x_list, y_list, out,
                   epoch, epoch_pool, yielded, dropped, patch_calls, call, sidevars>>

\* Top of while True: fresh lists, the pool rebuilt and shuffled.
BeginEpoch ==
    /\ pc = "begin"
    /\ \E source \in {EpochSource(args.index_list, pool)} :
       \E draws \in Draws(source, args.patch_start_offset) :
       \E built \in {EpochPool(args, source, draws)} :
          /\ pool' \in Shuffles(built)
          /\ epoch_pool' = built
          /\ patch_calls' = PatchCalls(args, source)
    /\ x_list' = <<>>
    /\ y_list' = <<>>
    /\ epoch' = IF epoch < MaxEpochs THEN epoch + 1 ELSE epoch
    /\ yielded' = <<>>
    /\ dropped' = <<>>
    /\ pc' = "drain"
    /\ UNCHANGED <<data_file, build, args, num_steps, out, call, sidevars>>

\* The inner while: leave it on an empty pool, else pop, add_data, maybe yield.
Drain ==
    /\ pc = "drain"
    /\ IF Len(pool) > 0
       THEN \E index \in {pool[Len(pool)]} :
            \E rest \in {SubSeq(pool, 1, Len(pool) - 1)} :
            \E added \in {AddData(args, x_list, y_list, index)} :
                /\ pool' = rest
                /\ x_list' = added.x
                /\ y_list' = added.y
                /\ dropped' = IF Len(added.x) = Len(x_list)
                              THEN Append(dropped, index) ELSE dropped
                /\ IF YieldNow(added.x, rest, args.batch_size)
                   THEN /\ out' = convert_data(added.x, added.y)
                        /\ yielded' = Append(yielded, added.x)
                        /\ pc' = "yield"
                   ELSE /\ pc' = "drain"
                        /\ UNCHANGED <<out, yielded>>
       ELSE /\ pc' = "begin"
            /\ UNCHANGED <<pool, x_list, y_list, out, yielded, dropped>>
    /\ UNCHANGED <<data_file, build, args, num_steps, epoch, epoch_pool,
                   patch_calls, call, sidevars>>

\* The next next(): the generator resumes after its yield.
Resume ==
    /\ pc = "yield"
    /\ x_list' = AfterYield(x_list)
    /\ y_list' = AfterYield(y_list)
    /\ pc' = "drain"
    /\ UNCHANGED <<data_file, build, args, num_steps, pool, out,
                   epoch, epoch_pool, yielded, dropped, patch_calls, call, sidevars>>

(***************************************************************************)
(* Builder calls the model starts from.                                    *)
(***************************************************************************)
\* Record lists <<1, ..., k>>.
RecordLists == {[i \in 1..k |-> i] : k \in 0..MaxPool}

PatchShapes == {<<2, 2, 2>>, <<2, 2, MaxDepth>>}

StartOffsets == {<<0, 0, 1>>}

TrainingCalls ==
    [builder : {"new", "gen", "g25"}, role : {"training"},
     index_list : RecordLists, batch_size : 1..MaxBatch,
     validation_batch_size : {0},
     patch_shape : PatchShapes \cup {None},
     validation_patch_overlap : {0},
     training_patch_start_offset : StartOffsets \cup {None},
     skip_blank : BOOLEAN, add_data_default : BOOLEAN]

ValidationCalls ==
    [builder : {"new", "gen", "g25"}, role : {"validation"},
     index_list : RecordLists, batch_size : 1..MaxBatch,
     validation_batch_size : {0, MaxBatch},
     patch_shape : PatchShapes \cup {None},
     validation_patch_overlap : {0, 1},
     training_patch_start_offset : {None},
     skip_blank : BOOLEAN, add_data_default : BOOLEAN]

\* The 2.5D builder reads patch_shape[-1]; only the 2.5D path has the
\* add_data default; no configuration builds a pool above MaxPool.
ValidCall(b, file) ==
    /\ b.builder = "g25" => b.patch_shape # None
    /\ b.builder # "g25" => b.add_data_default = TRUE
    /\ LET g == Build(b)
       IN  \A draws \in Draws(g.index_list, g.patch_start_offset) :
             Len(IF g.patch_shape # None
                 THEN IF g.fn = "data_generator25d"
                      THEN create_patch_index_list25d(g.index_list, file.shape,
                               g.patch_shape, g.patch_overlap, g.patch_start_offset, draws)
                      ELSE create_patch_index_list(g.index_list, file.shape,
                               g.patch_shape, g.patch_overlap, g.patch_start_offset, draws)
                 ELSE g.index_list) <= MaxPool

Init ==
    /\ data_file \in DataFiles
    /\ build \in {b \in TrainingCalls \cup ValidationCalls : ValidCall(b, data_file)}
    /\ args = Build(build)
    /\ \E draws \in Draws(args.index_list, args.patch_start_offset) :
          num_steps = DeclaredSteps(build, data_file, draws)
    /\ pc = "start"
    /\ pool = args.index_list
    /\ x_list = <<>>
    /\ y_list = <<>>
    /\ out = [x |-> <<>>, y |-> <<>>]
    /\ epoch = 0
    /\ epoch_pool = <<>>
    /\ yielded = <<>>
    /\ dropped = <<>>
    /\ patch_calls = 0
    /\ call = NoCall
    /\ SideIdle

\* The code of the generator running between two yields.
GenStep == BeginEpoch \/ Drain

Next == Start \/ BeginEpoch \/ Drain \/ Resume

Spec == Init /\ [][Next]_vars

\* A requested generator keeps running until it yields.
FairSpec == Spec /\ WF_vars(GenStep)

(***************************************************************************)
(* get_multi_class_labels.  data[s][v] is the label of voxel v of sample s *)
(* (data[:, 0] flattened); the result is y[s][c][v], c the channel.        *)
(***************************************************************************)
\* np.zeros(new_shape, np.int8)
ZeroLabels(data, n_labels) ==
    [s \in 1..Len(data) |-> [c \in 1..n_labels |-> [v \in 1..Len(data[s]) |-> 0]]]

\* The label channel label_index (0-based) is compared with, 0-based labels.
ChannelLabelZeroBased(labels, label_index) ==
    IF labels # None THEN labels[label_index + 1] ELSE label_index

\* The label channel label_index (0-based) is compared with:
\* labels[label_index], else label_index + 1.
ChannelLabel(labels, label_index) ==
    IF labels # None THEN labels[label_index + 1] ELSE label_index + 1

\* y[:, label_index][data[:, 0] == label] = 1
SetChannel(y, data, label_index, label) ==
    [s \in 1..Len(y) |->
        [y[s] EXCEPT ![label_index + 1] =
            [v \in 1..Len(data[s]) |->
                IF data[s][v] = label THEN 1 ELSE y[s][label_index + 1][v]]]]

\* for label_index in range(n_labels), from label_index on.
RECURSIVE LabelLoop(_, _, _, _, _)
LabelLoop(y, data, n_labels, labels, label_index) ==
    IF label_index >= n_labels THEN y
    ELSE LabelLoop(SetChannel(y, data, label_index, ChannelLabel(labels, label_index)),
                   data, n_labels, labels, label_index + 1)

\* get_multi_class_labels(data, n_labels, labels): [raised, y]; labels[i]
\* beyond the end of a shorter label list raises IndexError.
get_multi_class_labels(data, n_labels, labels) ==
    IF labels # None /\ Len(labels) < n_labels
    THEN [raised |-> TRUE, y |-> <<>>]
    ELSE [raised |-> FALSE,
          y |-> LabelLoop(ZeroLabels(data, n_labels), data, n_labels, labels, 0)]

(***************************************************************************)
(* convert_data25d.  A target of the stack is the sequence of its values    *)
(* along the last axis (one voxel per slice); the result is y[s][c], the   *)
(* value of channel c of sample s at the selected slice.                   *)
(***************************************************************************)
\* The slice in the middle rounded down: (D - 1) // 2, 0-based.
CentralSliceLow(depth) == (depth - 1) \div 2

\* slice_gt = y.shape[-1]//2, 0-based.
CentralSlice(depth) == depth \div 2

\* y[y > 0] = 1 on the stack with its single channel.
Threshold(ys) ==
    [s \in 1..Len(ys) |-> <<[z \in 1..Len(ys[s]) |-> IF ys[s][z] > 0 THEN 1 ELSE ys[s][z]]>>]

\* y = np.asarray(y_list) with its single channel, n_labels neither 1 nor above.
Stack(ys) == [s \in 1..Len(ys) |-> <<ys[s]>>]

\* convert_data25d(x_list, y_list, n_labels, labels): [raised, x, y].
convert_data25d(xs, ys, n_labels, labels) ==
    LET conv == IF n_labels = 1 THEN [raised |-> FALSE, y |-> Threshold(ys)]
                ELSE IF n_labels > 1 THEN get_multi_class_labels(ys, n_labels, labels)
                ELSE [raised |-> FALSE, y |-> Stack(ys)]
    IN  IF conv.raised THEN [raised |-> TRUE, x |-> <<>>, y |-> <<>>]
        ELSE [raised |-> FALSE, x |-> xs,
              y |-> [s \in 1..Len(conv.y) |->
                        [c \in 1..Len(conv.y[s]) |->
                            conv.y[s][c][CentralSlice(Len(conv.y[s][c])) + 1]]]]

(***************************************************************************)
(* Augmentation.  An array is [src, ops]: src tells where it was read from *)
(* (input channel i, 0 for the target), ops is the sequence of transforms  *)
(* applied to it, each <<kind, parameters drawn>>.  The tl.prepro *_multi  *)
(* functions are the library's; as spec 4.4 describes them they draw once  *)
(* and apply the same parameters to every array of the list.               *)
(***************************************************************************)
\* The two flips taken in the other order.
AugmentKindsFlipsSwapped ==
    <<"fliplr", "flipud", "elastic", "rotation", "shift", "shear", "zoom">>

\* The transforms in the order augment_data_new applies them.
AugmentKinds == <<"flipud", "fliplr", "elastic", "rotation", "shift", "shear", "zoom">>

\* tl.prepro.<kind>_multi(x, is_random=True): parameters p for all of x.
tl_prepro_multi(kind, p, x) ==
    [i \in 1..Len(x) |-> [x[i] EXCEPT !.ops = Append(@, <<kind, p>>)]]

\* elastic_transform_multi(x, is_random=True): new_shape is drawn before the
\* loop over x, dx and dy are computed from it for every array.
elastic_transform_multi(p, x) ==
    [i \in 1..Len(x) |-> [x[i] EXCEPT !.ops = Append(@, <<"elastic", p>>)]]

\* augment_data_new from its k-th transform on; flags is the set of the
\* kinds switched on, draws[kind] what that transform draws.
RECURSIVE AugmentFrom(_, _, _, _)
AugmentFrom(data, flags, draws, k) ==
    IF k > Len(AugmentKinds) THEN data
    ELSE AugmentFrom(
            The({IF kind \notin flags THEN data
                 ELSE IF kind = "elastic"
                      THEN elastic_transform_multi(draws[kind], data)
                      ELSE tl_prepro_multi(kind, draws[kind], data)
                    : kind \in {AugmentKinds[k]}}),
            flags, draws, k + 1)

augment_data_new(data, flags, draws) == AugmentFrom(data, flags, draws, 1)

\* Write-back that takes the target from the head of the augmented list.
WriteBackHead(data, data_list) ==
    [data |-> [i \in 1..Len(data) |-> data_list[i]], truth |-> data_list[1]]

\* data[i, :, :, :] = data_list[i]; truth[:, :, :] = data_list[-1]
WriteBack(data, data_list) ==
    [data |-> [i \in 1..Len(data) |-> data_list[i]],
     truth |-> data_list[Len(data_list)]]

\* The augmentation stage of add_data_new: [data, truth] after it.
AugmentSample(data, truth, flags, draws) ==
    IF flags # {}
    THEN WriteBack(data, augment_data_new(Append(data, truth), flags, draws))
    ELSE [data |-> data, truth |-> truth]

\* shape = x[0].shape, cut to its first three extents when x[0] has four.
ElasticShape(x) == IF Len(x[1]) = 4 THEN SubSeq(x[1], 1, 3) ELSE x[1]

\* What the body of the loop of elastic_transform_multi does with one
\* element of shape sh: the exception it raises or "none".  A 4D element
\* with a trailing extent of 1 is read as its 3D part; the rank must then be
\* 3.  np.meshgrid (xy indexing) gives grids of shape (shape[1], shape[0],
\* shape[2]) that are added to dx, dy of shape `shape`, and the result is
\* reshaped to `shape`, for a 4D element to (shape[0], shape[1], 1).
ElasticElement(shape, sh) ==
    IF Len(sh) = 4 /\ sh[4] # 1 THEN "Exception"
    ELSE IF Len(IF Len(sh) = 4 THEN SubSeq(sh, 1, 3) ELSE sh) # 3 THEN "AssertionError"
    ELSE IF shape[1] # shape[2] THEN "ValueError"
    ELSE IF Len(sh) = 4 /\ shape[3] # 1 THEN "ValueError"
    ELSE "none"

\* elastic_transform_multi on a list of arrays of the shapes x, from its
\* k-th element on: [raised, results], results the number of arrays returned.
RECURSIVE ElasticLoop(_, _)
ElasticLoop(x, k) ==
    IF k > Len(x) THEN [raised |-> "none", results |-> Len(x)]
    ELSE IF ElasticElement(ElasticShape(x), x[k]) # "none"
         THEN [raised |-> ElasticElement(ElasticShape(x), x[k]), results |-> None]
         ELSE ElasticLoop(x, k + 1)

\* The flags the generator fn hands to its add_data call, from the flags it
\* was given: data_generator_new passes each one on, data_generator25d passes
\* the literal augment_elastic=False.
ForwardedFlags(fn, flags) ==
    IF fn = "data_generator25d" THEN flags \ {"elastic"} ELSE flags

\* The augmentation a generator applies to one popped sample.  The add_data
\* of data_generator25d is unet3d.generator's; its augmentation stage is
\* taken to be the one of add_data_new.
GeneratorAugment(fn, data, truth, flags, draws) ==
    AugmentSample(data, truth, ForwardedFlags(fn, flags), draws)

(***************************************************************************)
(* The split (SplitSpec).  A split is [training, validation, testing];     *)
(* split_files holds the persisted one.  get_train_valid_test_split and    *)
(* get_train_valid_test_split_isbr are unet3d.generator functions          *)
(* described in spec 3 and 6: read if present and overwrite is false,      *)
(* otherwise a random partition of all record ids, written out.  The sizes *)
(* of the three parts are left open.                                       *)
(***************************************************************************)
\* Record ids 1..n as a list.
IdList(n) == [i \in 1..n |-> i]

\* The order perm cut after a and after b.
Cut(perm, a, b) ==
    [training |-> SubSeq(perm, 1, a),
     validation |-> SubSeq(perm, a + 1, b),
     testing |-> SubSeq(perm, b + 1, Len(perm))]

\* Every split of the ids: a random order cut in three.
Partitions(ids) ==
    {Cut(perm, c[1], c[2]) :
        perm \in Shuffles(ids),
        c \in {c \in (0..Len(ids)) \X (0..Len(ids)) : c[1] <= c[2]}}

\* get_train_valid_test_split(data_file, ..., overwrite): the outcomes.
get_train_valid_test_split(ids, files, overwrite) ==
    IF overwrite \/ files = None
    THEN {[raised |-> "none", split |-> p, files |-> p, regenerated |-> TRUE]
            : p \in Partitions(ids)}
    ELSE {[raised |-> "none", split |-> files, files |-> files, regenerated |-> FALSE]}

\* The split step of the builder of call c:
\*   "new"  get_training_and_validation_and_testing_generators: overwrite=False;
\*   "g25"  get_training_and_validation_and_testing_generators25d, either
\*          project: overwrite=False;
\*   "gen"  get_training_and_validation_generators: get_validation_split is
\*          not a name of the module, the call raises NameError.
SplitByBuilder(c, ids, files) ==
    CASE c.builder = "new" -> get_train_valid_test_split(ids, files, FALSE)
      [] c.builder = "g25" -> get_train_valid_test_split(ids, files, FALSE)
      [] c.builder = "gen" ->
            {[raised |-> "NameError", split |-> None, files |-> files,
              regenerated |-> FALSE]}

(***************************************************************************)
(* Two generator instances over one store (DuoSpec).  Both were handed the *)
(* same list object, caller_list; orig_index_list of either names it.      *)
(* frames[i] is the frame of instance i.  Its pool is [own, items]: own    *)
(* tells whether index_list names a list of the instance's own (items) or  *)
(* the caller's list object.                                               *)
(***************************************************************************)
\* The list and the store of DuoSpec.
DuoList == <<1, 2>>

DuoStore == [shape |-> ImageShape, truth |-> [i \in Records |-> IF i = 1 THEN {} ELSE {<<0, 0, 0>>}]]

\* index_list = orig_index_list: no copy, the caller's list itself.
copy_alias(list) == [own |-> FALSE, items |-> list]

\* copy.copy(orig_index_list): a new list with the same elements.
copy_copy(list) == [own |-> TRUE, items |-> list]

\* The list create_patch_index_list returns is a new one.
NewList(list) == [own |-> TRUE, items |-> list]

\* The elements of the list index_list names in frame f.
PoolItems(f) == IF f.pool.own THEN f.pool.items ELSE caller_list

\* The arguments of the instances: data_generator_new, data_generator and
\* data_generator25d, whole volumes or patches.
DuoArgs ==
    {[fn |-> fn, index_list |-> DuoList, batch_size |-> b,
      patch_shape |-> ps, patch_overlap |-> Broadcast(0, Len(ImageShape)),
      patch_start_offset |-> None, skip_blank |-> TRUE]
        : fn \in {"data_generator_new", "data_generator"},
          b \in 1..MaxBatch, ps \in {None, <<2, 2, 2>>}}
    \cup
    {[fn |-> "data_generator25d", index_list |-> DuoList, batch_size |-> b,
      patch_shape |-> ps,
      patch_overlap |-> IF ps = None THEN 0 ELSE Overlap25d(ps),
      patch_start_offset |-> None, skip_blank |-> TRUE]
        : b \in 1..MaxBatch, ps \in {None, <<2, 2, MaxDepth>>}}

\* A generator just created: nothing has run, index_list is the argument.
NewFrame(a) ==
    [args |-> a, pc |-> "start", pool |-> copy_alias(<<>>),
     x_list |-> <<>>, y_list |-> <<>>, out |-> [x |-> <<>>, y |-> <<>>],
     epoch |-> 0, epoch_pool |-> <<>>, yielded |-> <<>>, dropped |-> <<>>]

DuoStart(i) ==
    /\ frames[i].pc = "start"
    /\ frames' = [frames EXCEPT ![i].pc = "begin"]
    /\ UNCHANGED <<genvars, call, split_files, caller_list>>

\* Top of while True in instance i.
DuoBeginEpoch(i) ==
    /\ frames[i].pc = "begin"
    /\ \E f \in {frames[i]} :
       \E source \in {caller_list} :
       \E draws \in Draws(source, f.args.patch_start_offset) :
       \E built \in {IF f.args.patch_shape # None
                     THEN NewList(EpochPool(f.args, source, draws))
                     ELSE copy_copy(source)} :
       \E shuffled \in Shuffles(IF built.own THEN built.items ELSE caller_list) :
          /\ frames' = [frames EXCEPT ![i] =
                [f EXCEPT !.pool = [own |-> built.own, items |-> shuffled],
                          !.x_list = <<>>, !.y_list = <<>>,
                          !.epoch = IF f.epoch < MaxEpochs THEN f.epoch + 1 ELSE f.epoch,
                          !.epoch_pool = built.items,
                          !.yielded = <<>>, !.dropped = <<>>,
                          !.pc = "drain"]]
          /\ caller_list' = IF built.own THEN caller_list ELSE shuffled
    /\ UNCHANGED <<genvars, call, split_files>>

\* The inner while of instance i.
DuoDrain(i) ==
    /\ frames[i].pc = "drain"
    /\ \E f \in {frames[i]} :
       \E items \in {PoolItems(frames[i])} :
          IF Len(items) > 0
          THEN \E index \in {items[Len(items)]} :
               \E rest \in {SubSeq(items, 1, Len(items) - 1)} :
               \E added \in {AddData(f.args, f.x_list, f.y_list, index)} :
                  /\ frames' = [frames EXCEPT ![i] =
                        [f EXCEPT !.pool = [own |-> f.pool.own, items |-> rest],
                                  !.x_list = added.x, !.y_list = added.y,
                                  !.dropped = IF Len(added.x) = Len(f.x_list)
                                              THEN Append(f.dropped, index)
                                              ELSE f.dropped,
                                  !.out = IF YieldNow(added.x, rest, f.args.batch_size)
                                          THEN convert_data(added.x, added.y)
                                          ELSE f.out,
                                  !.yielded = IF YieldNow(added.x, rest, f.args.batch_size)
                                              THEN Append(f.yielded, added.x)
                                              ELSE f.yielded,
                                  !.pc = IF YieldNow(added.x, rest, f.args.batch_size)
                                         THEN "yield" ELSE "drain"]]
                  /\ caller_list' = IF f.pool.own THEN caller_list ELSE rest
          ELSE /\ frames' = [frames EXCEPT ![i].pc = "begin"]
               /\ UNCHANGED caller_list
    /\ UNCHANGED <<genvars, call, split_files>>

\* next() on instance i after a yield.
DuoResume(i) ==
    /\ frames[i].pc = "yield"
    /\ frames' = [frames EXCEPT ![i].x_list = AfterYield(@),
                                ![i].y_list = AfterYield(@),
                                ![i].pc = "drain"]
    /\ UNCHANGED <<genvars, call, split_files, caller_list>>

DuoInit ==
    /\ data_file = DuoStore
    /\ build \in [builder : {"none"}, add_data_default : BOOLEAN]
    /\ args = [fn |-> "none"]
    /\ num_steps = 0
    /\ pc = "start"
    /\ pool = <<>> /\ x_list = <<>> /\ y_list = <<>>
    /\ out = [x |-> <<>>, y |-> <<>>]
    /\ epoch = 0 /\ epoch_pool = <<>> /\ yielded = <<>> /\ dropped = <<>>
    /\ patch_calls = 0
    /\ call = NoCall
    /\ split_files = None
    /\ caller_list = DuoList
    /\ frames \in {<<NewFrame(a1), NewFrame(a2)>> :
                      a1 \in {a \in DuoArgs : a.fn = "data_generator_new"},
                      a2 \in DuoArgs}

\* The requests on the two instances interleave in any order.
DuoNext ==
    \E i \in 1..2 : DuoStart(i) \/ DuoBeginEpoch(i) \/ DuoDrain(i) \/ DuoResume(i)

DuoSpec == DuoInit /\ [][DuoNext]_vars

(***************************************************************************)
(* The two generators a builder returns (PairSpec).  split_files is the    *)
(* split the builder read or made, build the builder call, frames[1] the   *)
(* frame of the training generator and frames[2] the one of the validation *)
(* generator.  A frame keeps, as history, the record ids it has delivered, *)
(* the transforms its add_data calls were told to apply and the pools it   *)
(* has built, and the epochs it has begun counted up to MaxEpochs.         *)
(* get_training_and_validation_generators returns no generators            *)
(* (NameError in its split step).                                          *)
(***************************************************************************)
\* The augmentation flags of the training generator: the builder's.
TrainingFlags(b) == b.flags

\* A validation generator created with the builder's flags.
ValidationFlagsAsTraining(b) == b.flags

\* The validation generator is created without any augment_* argument: the
\* defaults, all False.
ValidationFlags(b) == {}

\* A generator handed every record id of the store whatever the list.
RoleCallWholeStore(b, role, list) ==
    [b EXCEPT !.role = role, !.index_list = IdList(MaxPool)]

\* The builder call b as Build reads it for one role and its list.
RoleCall(b, role, list) == [b EXCEPT !.role = role, !.index_list = list]

\* The arguments of the generator of a role.
PairArgs(b, role, split) ==
    IF role = "training"
    THEN Build(RoleCall(b, role, split.training)) @@ [flags |-> TrainingFlags(b)]
    ELSE Build(RoleCall(b, role, split.validation)) @@ [flags |-> ValidationFlags(b)]

\* A generator just created, with empty histories.
PairFrame(a) ==
    [args |-> a, pc |-> "start", pool |-> NewList(<<>>),
     x_list |-> <<>>, y_list |-> <<>>,
     delivered |-> {}, augmented |-> {}, pools |-> {}, epoch |-> 0]

\* The record id of a sample of the generator g.
RecordOf(g, sample) == IF g.patch_shape # None THEN sample[1] ELSE sample

PairStart(i) ==
    /\ frames[i].pc = "start"
    /\ frames' = [frames EXCEPT ![i].pc = "begin"]
    /\ UNCHANGED <<genvars, call, split_files, caller_list>>

\* Top of while True in generator i.
PairBeginEpoch(i) ==
    /\ frames[i].pc = "begin"
    /\ \E f \in {frames[i]} :
       \E draws \in Draws(f.args.index_list, f.args.patch_start_offset) :
       \E built \in {EpochPool(f.args, f.args.index_list, draws)} :
       \E shuffled \in Shuffles(built) :
          frames' = [frames EXCEPT ![i] =
                [f EXCEPT !.pool = NewList(shuffled),
                          !.x_list = <<>>, !.y_list = <<>>,
                          !.pools = f.pools \cup {built},
                          !.epoch = IF f.epoch < MaxEpochs THEN f.epoch + 1 ELSE f.epoch,
                          !.pc = "drain"]]
    /\ UNCHANGED <<genvars, call, split_files, caller_list>>

\* The inner while of generator i.
PairDrain(i) ==
    /\ frames[i].pc = "drain"
    /\ \E f \in {frames[i]} :
       \E items \in {frames[i].pool.items} :
          IF Len(items) > 0
          THEN \E index \in {items[Len(items)]} :
               \E rest \in {SubSeq(items, 1, Len(items) - 1)} :
               \E added \in {AddData(f.args, f.x_list, f.y_list, index)} :
               \E now \in {YieldNow(added.x, rest, f.args.batch_size)} :
                  frames' = [frames EXCEPT ![i] =
                        [f EXCEPT !.pool = NewList(rest),
                                  !.x_list = added.x, !.y_list = added.y,
                                  !.augmented = f.augmented
                                        \cup ForwardedFlags(f.args.fn, f.args.flags),
                                  !.delivered = IF now
                                        THEN f.delivered \cup
                                             {RecordOf(f.args, convert_data(added.x, added.y).x[k]) :
                                                 k \in DOMAIN added.x}
                                        ELSE f.delivered,
                                  !.pc = IF now THEN "yield" ELSE "drain"]]
          ELSE frames' = [frames EXCEPT ![i].pc = "begin"]
    /\ UNCHANGED <<genvars, call, split_files, caller_list>>

\* next() on generator i after a yield.
PairResume(i) ==
    /\ frames[i].pc = "yield"
    /\ frames' = [frames EXCEPT ![i].x_list = AfterYield(@),
                                ![i].y_list = AfterYield(@),
                                ![i].pc = "drain"]
    /\ UNCHANGED <<genvars, call, split_files, caller_list>>

\* Splits the builder can read or make: the ids in two orders cut in three,
\* and a persisted split that names record 2 twice.
PairSplits ==
    {Cut(perm, c[1], c[2]) :
        perm \in {IdList(MaxPool), [i \in 1..MaxPool |-> MaxPool + 1 - i]},
        c \in {c \in (0..MaxPool) \X (0..MaxPool) : c[1] <= c[2]}}
    \cup {[training |-> <<1, 2>>, validation |-> <<2>>, testing |-> <<>>]}

\* Calls of get_training_and_validation_and_testing_generators ("new") and
\* of get_training_and_validation_and_testing_generators25d ("g25").
PairCalls ==
    [builder : {"new", "g25"}, role : {"training"}, index_list : {<<>>},
     batch_size : 1..MaxBatch, validation_batch_size : {0},
     patch_shape : {<<2, 2, 2>>, None},
     validation_patch_overlap : {0},
     training_patch_start_offset : StartOffsets \cup {None},
     skip_blank : {TRUE}, add_data_default : {TRUE},
     flags : {{}, {"fliplr", "elastic"}}]

PairInit ==
    /\ data_file = DuoStore
    /\ split_files \in PairSplits
    /\ build \in {b \in PairCalls :
            /\ ValidCall(RoleCall(b, "training", split_files.training), data_file)
            /\ ValidCall(RoleCall(b, "validation", split_files.validation), data_file)}
    /\ frames = <<PairFrame(PairArgs(build, "training", split_files)),
                  PairFrame(PairArgs(build, "validation", split_files))>>
    /\ args = [fn |-> "none"]
    /\ num_steps = 0
    /\ pc = "start"
    /\ pool = <<>> /\ x_list = <<>> /\ y_list = <<>>
    /\ out = [x |-> <<>>, y |-> <<>>]
    /\ epoch = 0 /\ epoch_pool = <<>> /\ yielded = <<>> /\ dropped = <<>>
    /\ patch_calls = 0
    /\ call = NoCall
    /\ caller_list = <<>>

\* The requests on the two generators interleave in any order.
PairNext ==
    \E i \in 1..2 : PairStart(i) \/ PairBeginEpoch(i) \/ PairDrain(i) \/ PairResume(i)

PairSpec == PairInit /\ [][PairNext]_vars

(***************************************************************************)
(* PureSpec: Init draws a call and its arguments, the Apply actions        *)
(* compute the result the way the code does.                               *)
(***************************************************************************)
\* Two-dimensional shapes with extents 1..MaxExtent.
PureShapes == [1..2 -> 1..MaxExtent]

\* Overlaps, one value per dimension (an int overlap is given broadcast):
\* negative (a gap), zero, positive, and as large as a patch extent.
PureOverlaps ==
    {Broadcast(v, 2) : v \in {-1, 0, 1, 2}} \cup {<<0, -1>>, <<1, 0>>}

\* Start tuples (already negated) handed to compute_patch_indices.
PureStarts == {None, <<0, -1>>, <<-1, -2>>}

PureOffsets == {None, <<0, 1>>, <<1, 0>>}

PureLists == {<<>>, <<1>>, <<1, 2>>, <<2, 2>>}

ComputeCalls ==
    [fn : {"compute_patch_indices"}, done : {FALSE},
     image_shape : PureShapes, patch_shape : PureShapes,
     overlap : PureOverlaps, start : PureStarts, aggressive : BOOLEAN]

CreateCalls ==
    UNION {
        [fn : {"create_patch_index_list", "create_patch_index_list25d"},
         done : {FALSE}, index_list : {l},
         image_shape : PureShapes, patch_shape : PureShapes,
         patch_overlap : PureOverlaps, patch_start_offset : {off},
         draws : Draws(l, off)]
        : l \in PureLists, off \in PureOffsets}

StepCalls ==
    [fn : {"get_number_of_steps"}, done : {FALSE},
     n_samples : 0..MaxSamples, batch_size : 1..MaxBatch]

\* Label maps of one or two samples, MaxVoxels voxels each.
LabelMaps ==
    UNION {[1..n -> [1..MaxVoxels -> 0..MaxLabel]] : n \in 1..2}

\* labels: None, a permuted list, a list with a repeated value, a short list.
LabelLists == {None, <<3, 1, 2>>, <<2, 2>>, <<1>>}

LabelCalls ==
    [fn : {"get_multi_class_labels"}, done : {FALSE},
     data : LabelMaps, n_labels : 1..MaxLabel, labels : LabelLists]

\* Whether the 2D enumerator raises (a patch extent beyond the volume).
CreateRaises(c) ==
    c.fn = "create_patch_index_list" /\ c.index_list # <<>>
    /\ \E d \in 1..Len(c.image_shape) : c.patch_shape[d] > c.image_shape[d]

ApplyCompute ==
    /\ call.fn = "compute_patch_indices" /\ ~call.done
    /\ call' = [call EXCEPT !.done = TRUE] @@
               [result |-> compute_patch_indices(call.image_shape, call.patch_shape,
                              call.overlap, call.start, call.aggressive)]
    /\ UNCHANGED <<genvars, sidevars>>

ApplyCreate ==
    /\ call.fn = "create_patch_index_list" /\ ~call.done
    /\ call' = [call EXCEPT !.done = TRUE] @@
               [raised |-> CreateRaises(call),
                result |-> create_patch_index_list(call.index_list, call.image_shape,
                              call.patch_shape, call.patch_overlap,
                              call.patch_start_offset, call.draws)]
    /\ UNCHANGED <<genvars, sidevars>>

ApplyCreate25d ==
    /\ call.fn = "create_patch_index_list25d" /\ ~call.done
    /\ call' = [call EXCEPT !.done = TRUE] @@
               [raised |-> FALSE,
                result |-> create_patch_index_list25d(call.index_list, call.image_shape,
                              call.patch_shape, call.patch_overlap,
                              call.patch_start_offset, call.draws)]
    /\ UNCHANGED <<genvars, sidevars>>

ApplySteps ==
    /\ call.fn = "get_number_of_steps" /\ ~call.done
    /\ call' = [call EXCEPT !.done = TRUE] @@
               [result |-> get_number_of_steps(call.n_samples, call.batch_size)]
    /\ UNCHANGED <<genvars, sidevars>>

ApplyLabels ==
    /\ call.fn = "get_multi_class_labels" /\ ~call.done
    /\ call' = [call EXCEPT !.done = TRUE] @@
               [result |-> get_multi_class_labels(call.data, call.n_labels, call.labels)]
    /\ UNCHANGED <<genvars, sidevars>>

\* A sample as get_data_from_file returns it: n_channels inputs and a target.
FreshData(n_channels) == [i \in 1..n_channels |-> [src |-> i, ops |-> <<>>]]

FreshTruth == [src |-> 0, ops |-> <<>>]

\* Draws of the transforms switched on (0 for the others).
AugmentDraws(flags) ==
    {d \in [Range(AugmentKinds) -> 0..1] :
        \A kind \in Range(AugmentKinds) : kind \notin flags => d[kind] = 0}

AugmentCalls ==
    UNION {[fn : {"add_data_new.augment"}, done : {FALSE}, n_channels : 1..2,
            flags : {flags}, draws : AugmentDraws(flags)]
            : flags \in SUBSET Range(AugmentKinds)}

ApplyAugment ==
    /\ call.fn = "add_data_new.augment" /\ ~call.done
    /\ call' = [call EXCEPT !.done = TRUE] @@
               [result |-> AugmentSample(FreshData(call.n_channels), FreshTruth,
                                         call.flags, call.draws)]
    /\ UNCHANGED <<genvars, sidevars>>

\* add_data calls: on empty lists or lists holding one sample, a whole
\* volume or a patch, of a blank or a labelled record.
AddDataIndices(patch_shape) ==
    IF patch_shape = None THEN {1, 2}
    ELSE {<<1, <<0, 0, 0>> >>, <<2, <<0, 0, 0>> >>, <<2, <<0, 0, 1>> >>}

AddDataCallsOn(patch_shape, index, held) ==
    [fn : {"add_data"}, done : {FALSE}, file : DataFiles,
     x_list : {[i \in 1..held |-> index]}, y_list : {[i \in 1..held |-> {<<0, 0, 0>>}]},
     index : {index}, patch_shape : {patch_shape},
     skip_blank : BOOLEAN, augment : BOOLEAN, permute : BOOLEAN,
     draw : {"keep", "crop"}]

AddDataCalls(patch_shape) ==
    UNION {AddDataCallsOn(patch_shape, c[1], c[2]) :
            c \in AddDataIndices(patch_shape) \X (0..1)}

ApplyAddData ==
    /\ call.fn = "add_data" /\ ~call.done
    /\ call' = [call EXCEPT !.done = TRUE] @@
               [fetched |-> get_data_from_file(call.file, call.index, call.patch_shape).y,
                result |-> add_data_full(call.x_list, call.y_list, call.file, call.index,
                              call.patch_shape, call.skip_blank, call.augment,
                              call.permute, call.draw)]
    /\ UNCHANGED <<genvars, sidevars>>

\* convert_data25d calls: stacks of one or two targets of 1..MaxDepth slices
\* with values 0..2, no label list or a permuted one.
ConvertCalls ==
    UNION {[fn : {"convert_data25d"}, done : {FALSE},
            x_list : {[s \in 1..n |-> s]}, y_list : [1..n -> [1..depth -> 0..2]],
            n_labels : 0..2, labels : {None, <<2, 1>>}]
            : n \in 1..2, depth \in 1..MaxDepth}

ApplyConvert ==
    /\ call.fn = "convert_data25d" /\ ~call.done
    /\ call' = [call EXCEPT !.done = TRUE] @@
               [result |-> convert_data25d(call.x_list, call.y_list, call.n_labels,
                                           call.labels)]
    /\ UNCHANGED <<genvars, sidevars>>

\* One sample popped by a training generator created with the given flags.
GeneratorAugmentCalls ==
    UNION {[fn : {"generator.augment"}, done : {FALSE},
            generator : {"data_generator_new", "data_generator25d"},
            flags : {flags}, draws : AugmentDraws(flags)]
            : flags \in SUBSET Range(AugmentKinds)}

ApplyGeneratorAugment ==
    /\ call.fn = "generator.augment" /\ ~call.done
    /\ call' = [call EXCEPT !.done = TRUE] @@
               [result |-> GeneratorAugment(call.generator, FreshData(1), FreshTruth,
                                            call.flags, call.draws)]
    /\ UNCHANGED <<genvars, sidevars>>

\* Shapes of the arrays handed to elastic_transform_multi: ranks 1 to 5,
\* square and not, trailing extent 1 and not.
ElasticShapes ==
    {<<2>>, <<2, 2>>, <<2, 2, 1>>, <<2, 2, 3>>, <<2, 3, 1>>,
     <<2, 2, 1, 1>>, <<2, 2, 3, 1>>, <<2, 2, 1, 3>>, <<2, 2, 1, 1, 1>>}

ElasticCalls ==
    UNION {[fn : {"elastic_transform_multi"}, done : {FALSE}, x : [1..n -> ElasticShapes]]
            : n \in 1..2}

ApplyElastic ==
    /\ call.fn = "elastic_transform_multi" /\ ~call.done
    /\ call' = [call EXCEPT !.done = TRUE] @@ [result |-> ElasticLoop(call.x, 1)]
    /\ UNCHANGED <<genvars, sidevars>>

\* Builder calls of SplitSpec.
SplitCalls ==
    [fn : {"split"}, done : {FALSE}, builder : {"new", "g25", "gen"},
     project : {"brats", "isbr"}, overwrite : BOOLEAN]

\* The record ids of the store.
StoreIds(file) == IdList(Len(file.truth))

\* What an earlier run can have persisted: nothing, or a split of the
\* records the store had then (prepare_data rebuilds the store, train2d.py
\* line 67; the store had as many records as now or one less).
PersistedSplits(file) ==
    {None} \cup Partitions(StoreIds(file))
           \cup Partitions(IdList(Len(file.truth) - 1))

\* The builder runs its split step.
ApplySplit ==
    /\ call.fn = "split" /\ ~call.done
    /\ \E o \in SplitByBuilder(call, StoreIds(data_file), split_files) :
          /\ call' = [call EXCEPT !.done = TRUE] @@
                     [files_before |-> split_files, result |-> o]
          /\ split_files' = o.files
    /\ UNCHANGED <<genvars, caller_list, frames>>

SplitInit ==
    /\ data_file \in DataFiles
    /\ build = [builder |-> "none"]
    /\ args = [fn |-> "none"]
    /\ num_steps = 0
    /\ pc = "start"
    /\ pool = <<>> /\ x_list = <<>> /\ y_list = <<>>
    /\ out = [x |-> <<>>, y |-> <<>>]
    /\ epoch = 0 /\ epoch_pool = <<>> /\ yielded = <<>> /\ dropped = <<>>
    /\ patch_calls = 0
    /\ call \in {c \in SplitCalls : c.builder # "g25" => c.project = "brats"}
    /\ split_files \in PersistedSplits(data_file)
    /\ caller_list = <<>>
    /\ frames = <<>>

SplitNext == ApplySplit

SplitSpec == SplitInit /\ [][SplitNext]_vars

\* The generator of PureSpec is never started.
GenIdle ==
    /\ data_file = [shape |-> <<>>, truth |-> <<>>]
    /\ build = [builder |-> "none"]
    /\ args = [fn |-> "none"]
    /\ num_steps = 0
    /\ pc = "start"
    /\ pool = <<>> /\ x_list = <<>> /\ y_list = <<>>
    /\ out = [x |-> <<>>, y |-> <<>>]
    /\ epoch = 0 /\ epoch_pool = <<>> /\ yielded = <<>> /\ dropped = <<>>
    /\ patch_calls = 0

PureInit ==
    /\ GenIdle
    /\ SideIdle
    /\ \/ call \in ComputeCalls \cup CreateCalls \cup StepCalls \cup LabelCalls
                    \cup AugmentCalls
       \/ call \in AddDataCalls(None)
       \/ call \in AddDataCalls(<<2, 2, 2>>)
       \/ call \in ConvertCalls
       \/ call \in GeneratorAugmentCalls
       \/ call \in ElasticCalls

PureNext ==
    \/ ApplyCompute \/ ApplyCreate \/ ApplyCreate25d \/ ApplySteps
    \/ ApplyLabels \/ ApplyAugment \/ ApplyAddData
    \/ ApplyConvert \/ ApplyGeneratorAugment \/ ApplyElastic

PureSpec == PureInit /\ [][PureNext]_vars

(***************************************************************************)
(* Properties of the generators (Spec, FairSpec).                          *)
(***************************************************************************)
\* An epoch has been drained: the inner while was left and the generator is
\* back at the top of while True.  The histories are those of that epoch.
EpochDone == pc = "begin" /\ epoch >= 1

\* Number of occurrences of e in the sequence s.
Count(e, s) == Cardinality({i \in DOMAIN s : s[i] = e})

\* s and t hold the same elements the same number of times.
SameBag(s, t) ==
    /\ Len(s) = Len(t)
    /\ \A e \in Range(s) \cup Range(t) : Count(e, s) = Count(e, t)

\* C1: when no sample of the epoch was dropped, a pool of n >= 1 samples is
\* yielded in exactly ceil(n / B) batches, every one of B samples except the
\* last, which has n mod B samples (B when B divides n).
C1_BatchesPerEpoch ==
    (EpochDone /\ Len(epoch_pool) >= 1 /\ dropped = <<>>) =>
        LET n == Len(epoch_pool)
            B == args.batch_size
            k == Len(yielded)
        IN  /\ k * B >= n
            /\ (k - 1) * B < n
            /\ \A i \in 1..(k - 1) : Len(yielded[i]) = B
            /\ Len(yielded[k]) = (IF n % B = 0 THEN B ELSE n % B)

\* C1 witness: data_generator_new drained a pool of 3 with batch size 2 in
\* two batches, the last one partial.
C1_Witness ==
    /\ EpochDone /\ dropped = <<>>
    /\ args.fn = "data_generator_new"
    /\ Len(epoch_pool) = 3 /\ args.batch_size = 2
    /\ Len(yielded) = 2 /\ Len(yielded[2]) = 1

\* C2: when no sample of the epoch was dropped, the samples of the batches
\* yielded in the epoch are, together, a permutation of the epoch's pool.
C2_EpochIsPermutation ==
    (EpochDone /\ dropped = <<>>) => SameBag(Flatten(yielded), epoch_pool)

\* C2 witness: data_generator25d delivered a pool of 3 patches in 2 batches.
C2_Witness ==
    /\ EpochDone /\ dropped = <<>>
    /\ args.fn = "data_generator25d"
    /\ Len(epoch_pool) = 3 /\ Len(yielded) = 2
    /\ Len(Flatten(yielded)) = 3

\* C3: every yielded batch has at most batch_size samples, and as many
\* stacked inputs as stacked targets.
C3_BatchWithinSize ==
    pc = "yield" =>
        /\ Len(out.x) <= args.batch_size
        /\ Len(out.x) = Len(out.y)
        /\ Len(out.x) = Len(x_list)

\* C3 witness: data_generator with skip-blank filtering yields a full batch
\* of 2 in an epoch in which it dropped a blank sample.
C3_Witness ==
    /\ pc = "yield"
    /\ args.fn = "data_generator" /\ args.skip_blank
    /\ dropped # <<>>
    /\ args.batch_size = 2 /\ Len(out.x) = 2 /\ Len(out.y) = 2

\* C4: the generator has no terminal state: in every reachable state some
\* step is possible (a drained pool leads back to the top of the loop), and
\* the pool of every epoch, the first and the later ones alike, is the one
\* built from the original record list; what is still queued is part of it.
C4_NoTerminalState ==
    /\ ENABLED Next
    /\ (pc = "drain" /\ pool = <<>>) => ENABLED Drain
    /\ epoch >= 1 =>
          /\ \E draws \in Draws(args.index_list, args.patch_start_offset) :
                epoch_pool = EpochPool(args, args.index_list, draws)
          /\ \A s \in Range(pool) : Count(s, pool) <= Count(s, epoch_pool)

\* C4 witness: a later epoch is under way with a full pool of 3 samples.
C4_Witness ==
    /\ pc = "drain" /\ epoch = MaxEpochs
    /\ Len(args.index_list) = 3 /\ Len(pool) = 3

\* C5: every request is answered: once the generator code runs it reaches a
\* yield, for every record list, empty and all-blank ones included.
C5_EveryRequestYields == (pc \in {"begin", "drain"}) ~> (pc = "yield")

\* C6: with skip_blank=True, no batch of the generators built by
\* get_training_and_validation_and_testing_generators holds a blank target.
C6_NoBlankWhenSkipBlank ==
    (pc = "yield" /\ build.builder = "new" /\ build.skip_blank) =>
        \A i \in DOMAIN out.y : AnyForeground(out.y[i])

\* C7: the step count declared by
\* get_training_and_validation_and_testing_generators equals the number of
\* batches its generator yields in each epoch.
C7_DeclaredStepsMatch ==
    (EpochDone /\ build.builder = "new") => Len(yielded) = num_steps

C20_WholeVolumePool ==
    (epoch >= 1 /\ args.patch_shape = None) =>
        /\ Len(epoch_pool) = Len(args.index_list)
        /\ \A i \in DOMAIN epoch_pool :
              epoch_pool[i] \in Records /\ epoch_pool[i] = args.index_list[i]
        /\ patch_calls = 0

\* C20 witness: the second epoch of a generator without patch_shape over
\* three records has a pool of three samples.
C20_Witness ==
    /\ epoch = 2 /\ args.patch_shape = None
    /\ Len(args.index_list) = 3 /\ Len(epoch_pool) = 3
    /\ patch_calls = 0

\* C26: no generator yields an empty batch: every batch handed out, in
\* every epoch, with samples dropped by the skip-blank test or not, holds at
\* least one sample.
C26_NoEmptyBatch ==
    /\ pc = "yield" => (Len(out.x) >= 1 /\ Len(out.y) >= 1)
    /\ \A i \in DOMAIN yielded : Len(yielded[i]) >= 1

\* C26 witness: an epoch of data_generator over three records is over, the
\* blank one was dropped and the two others were yielded.
C26_Witness ==
    /\ EpochDone /\ args.fn = "data_generator" /\ args.skip_blank
    /\ Len(epoch_pool) = 3 /\ Len(dropped) = 1
    /\ Len(Flatten(yielded)) = 2

\* C27: a batch never mixes samples of two epochs: whenever the generator
\* is at the top of its loop, about to rebuild the pool, the accumulator is
\* empty, and the batches of an epoch together hold no sample more often
\* than the pool of that epoch does; with and without skip-blank filtering.
C27_NoBatchAcrossEpochs ==
    /\ pc = "begin" => (x_list = <<>> /\ y_list = <<>>)
    /\ (pc = "drain" /\ pool = <<>>) => (x_list = <<>> /\ y_list = <<>>)
    /\ epoch >= 1 =>
          \A s \in Range(epoch_pool) :
              Count(s, Flatten(yielded)) <= Count(s, epoch_pool)

\* C27 witness: the first epoch of a generator with batch_size 2 over three
\* samples is over, its last batch was a partial one, and the accumulator
\* is empty at the rebuild.
C27_Witness ==
    /\ pc = "begin" /\ epoch = 1 /\ args.batch_size = 2
    /\ Len(epoch_pool) = 3 /\ Len(yielded) = 2 /\ Len(yielded[2]) = 1
    /\ dropped = <<>> /\ x_list = <<>>

(***************************************************************************)
(* Properties of the pure functions (PureSpec).                            *)
(***************************************************************************)
Done(fn) == call.fn = fn /\ call.done

\* C8: get_number_of_steps is the ceiling of n_samples / batch_size: the
\* steps cover every sample and no step is superfluous.
C8_StepsAreCeiling ==
    Done("get_number_of_steps") =>
        /\ call.result * call.batch_size >= call.n_samples
        /\ (call.result - 1) * call.batch_size < call.n_samples

\* C8 witness: 7 samples in batches of 2 need 4 steps.
C8_Witness ==
    /\ Done("get_number_of_steps")
    /\ call.n_samples = 7 /\ call.batch_size = 2 /\ call.result = 4

\* Every origin of the sequence keeps its patch inside the volume.
AllInside(origins, image_shape, patch_shape) ==
    \A j \in DOMAIN origins : \A d \in DOMAIN image_shape :
        0 <= origins[j][d] /\ origins[j][d] + patch_shape[d] <= image_shape[d]

PatchFitsVolume(c) ==
    \A d \in DOMAIN c.image_shape : c.patch_shape[d] <= c.image_shape[d]

\* C9: with P <= V in every dimension, overlap 0 and no start offset, every
\* enumerated patch lies inside the volume; this holds of
\* compute_patch_indices and of the list create_patch_index_list builds.
C9_PatchesInsideVolume ==
    /\ (Done("compute_patch_indices") /\ PatchFitsVolume(call)
        /\ call.overlap = Broadcast(0, 2) /\ call.start = None) =>
            /\ ~call.result.raised
            /\ AllInside(call.result.indices, call.image_shape, call.patch_shape)
    /\ (Done("create_patch_index_list") /\ PatchFitsVolume(call)
        /\ call.patch_overlap = Broadcast(0, 2) /\ call.patch_start_offset = None) =>
            AllInside([j \in DOMAIN call.result |-> call.result[j][2]],
                      call.image_shape, call.patch_shape)

\* C9 witness: a 4 x 3 volume cut into 2 x 2 patches gives two origins.
C9_Witness ==
    /\ Done("compute_patch_indices")
    /\ call.image_shape = <<4, 3>> /\ call.patch_shape = <<2, 2>>
    /\ call.overlap = Broadcast(0, 2) /\ call.start = None /\ ~call.aggressive
    /\ call.result.indices = << <<0, 0>>, <<2, 0>> >>

\* The last origin exists and its patch ends at the far edge in every
\* dimension, and no origin lies beyond it.
TouchesFarEdge(origins, image_shape, patch_shape) ==
    /\ origins # <<>>
    /\ \A d \in DOMAIN image_shape :
          /\ origins[Len(origins)][d] + patch_shape[d] = image_shape[d]
          /\ \A j \in DOMAIN origins : origins[j][d] <= origins[Len(origins)][d]

\* C10: in aggressive mode, for every volume, patch shape and overlap, the
\* last origin along each dimension puts the patch against the far edge; this
\* holds of compute_patch_indices and of the 2.5D create_patch_index_list.
C10_AggressiveTouchesFarEdge ==
    /\ (Done("compute_patch_indices") /\ call.aggressive) =>
            TouchesFarEdge(call.result.indices, call.image_shape, call.patch_shape)
    /\ (Done("create_patch_index_list25d") /\ call.index_list # <<>>) =>
            TouchesFarEdge([j \in DOMAIN call.result |-> call.result[j][2]],
                           call.image_shape, call.patch_shape)

\* C10 witness: the 2.5D list of one record, 4 x 3 volume, 2 x 2 patches and a
\* gap along the last dimension, ends with the clamped origin <<2, 1>>.
C10_Witness ==
    /\ Done("create_patch_index_list25d")
    /\ call.index_list = <<1>>
    /\ call.image_shape = <<4, 3>> /\ call.patch_shape = <<2, 2>>
    /\ call.patch_overlap = <<0, -1>> /\ call.patch_start_offset = None
    /\ call.result[Len(call.result)] = <<1, <<2, 1>> >>

\* a comes before b in the order of the enumeration (first dimension slowest).
LexLess(a, b) ==
    \E d \in DOMAIN a : a[d] < b[d] /\ \A e \in 1..(d - 1) : a[e] = b[e]

\* C18: compute_patch_indices ends for every input, steps of
\* patch_shape[d] - overlap[d] <= 0 included: what it returns is a finite
\* sequence of origins that strictly increases, each origin at or after the
\* start or the clamped origin and with its patch ending inside the volume.
C18_EnumerationEnds ==
    (Done("compute_patch_indices") /\ ~call.result.raised) =>
        LET o == call.result.indices
        IN  /\ \A j \in 1..(Len(o) - 1) : LexLess(o[j], o[j + 1])
            /\ \A j \in DOMAIN o : \A d \in DOMAIN call.image_shape :
                  /\ o[j][d] + call.patch_shape[d] <= call.image_shape[d]
                     \/ (call.aggressive
                         /\ o[j][d] = call.image_shape[d] - call.patch_shape[d])
                  /\ \/ o[j][d] >= (IF call.start = None THEN 0 ELSE call.start[d])
                     \/ (call.aggressive
                         /\ o[j][d] = call.image_shape[d] - call.patch_shape[d])

\* C18 witness: overlap equal to the patch extent in both dimensions
\* (patch_shape - overlap = 0): a 4 x 3 volume and 2 x 2 patches give the
\* origins one voxel apart, 3 x 2 of them.
C18_Witness ==
    /\ Done("compute_patch_indices")
    /\ call.image_shape = <<4, 3>> /\ call.patch_shape = <<2, 2>>
    /\ call.overlap = <<2, 2>> /\ call.start = None /\ ~call.aggressive
    /\ call.result.indices =
          << <<0, 0>>, <<0, 1>>, <<1, 0>>, <<1, 1>>, <<2, 0>>, <<2, 1>> >>

\* The origins the builder returns for the i-th record of the call c.
OriginsOf(c, i) ==
    PatchesOf(c.image_shape, c.patch_shape, c.patch_overlap, c.patch_start_offset,
              c.draws[i], c.fn = "create_patch_index_list25d")

\* The number of origins of the records before the i-th.
RECURSIVE OriginsBefore(_, _)
OriginsBefore(c, i) ==
    IF i <= 1 THEN 0 ELSE OriginsBefore(c, i - 1) + Len(OriginsOf(c, i - 1))

\* C19: create_patch_index_list (2D and 2.5D) returns, record after record
\* in the order of index_list, one (record id, origin) pair per origin the
\* builder returned for that record, in the builder's order and with
\* nothing removed; without a start offset N records and K origins give
\* N * K pairs.
C19_EnumeratorOrder ==
    ((Done("create_patch_index_list") \/ Done("create_patch_index_list25d"))
        /\ ~call.raised) =>
        /\ Len(call.result) = OriginsBefore(call, Len(call.index_list) + 1)
        /\ \A i \in DOMAIN call.index_list : \A j \in DOMAIN OriginsOf(call, i) :
              call.result[OriginsBefore(call, i) + j]
                  = <<call.index_list[i], OriginsOf(call, i)[j]>>
        /\ call.patch_start_offset = None =>
              Len(call.result) = Len(call.index_list) * Len(OriginsOf(call, 1))

\* C19 witness: the record list <<2, 2>> on a 4 x 3 volume with 2 x 2 patches
\* (two origins): four pairs, the two of the first entry then the same two.
C19_Witness ==
    /\ Done("create_patch_index_list") /\ ~call.raised
    /\ call.index_list = <<2, 2>> /\ call.patch_start_offset = None
    /\ call.image_shape = <<4, 3>> /\ call.patch_shape = <<2, 2>>
    /\ call.patch_overlap = Broadcast(0, 2)
    /\ call.result = << <<2, <<0, 0>> >>, <<2, <<2, 0>> >>,
                        <<2, <<0, 0>> >>, <<2, <<2, 0>> >> >>

\* C11: get_multi_class_labels returns, for every sample, n_labels channels
\* of 0/1 values over the voxels of the sample, and the value of channel i
\* at a voxel is 1 exactly when the source label there equals labels[i]
\* (i + 1 when no label list is given).
C11_MultiClassLabels ==
    (Done("get_multi_class_labels") /\ ~call.result.raised) =>
        LET y == call.result.y
        IN  /\ Len(y) = Len(call.data)
            /\ \A s \in 1..Len(y) :
                  /\ Len(y[s]) = call.n_labels
                  /\ \A c \in 1..call.n_labels :
                        /\ Len(y[s][c]) = Len(call.data[s])
                        /\ \A v \in 1..Len(call.data[s]) :
                              /\ y[s][c][v] \in {0, 1}
                              /\ y[s][c][v] = 1 <=>
                                    call.data[s][v] =
                                        (IF call.labels # None
                                         THEN call.labels[c] ELSE c)

\* C11 witness: labels <<3, 1, 2>> and a sample with labels 3 and 0 give the
\* channels <<1, 0>>, <<0, 0>>, <<0, 0>>.
C11_Witness ==
    /\ Done("get_multi_class_labels")
    /\ call.labels = <<3, 1, 2>> /\ call.n_labels = 3
    /\ call.data = << <<3, 0>> >>
    /\ call.result.y = << << <<1, 0>>, <<0, 0>>, <<0, 0>> >> >>

\* C14: augmentation is joint: after the augmentation stage of add_data_new
\* every input channel and the target hold the array that was read for them,
\* every array went through the same transforms with the same drawn
\* parameters, and each transform switched on was applied once.
C14_JointAugmentation ==
    Done("add_data_new.augment") =>
        LET r == call.result
        IN  /\ Len(r.data) = call.n_channels
            /\ r.truth.src = 0
            /\ Len(r.truth.ops) = Cardinality(call.flags)
            /\ \A kind \in call.flags :
                  Count(<<kind, call.draws[kind]>>, r.truth.ops) = 1
            /\ \A i \in 1..call.n_channels :
                  /\ r.data[i].src = i
                  /\ r.data[i].ops = r.truth.ops

\* C14 witness: flip and elastic switched on, two channels: all three arrays
\* were flipped and deformed with the same draws.
C14_Witness ==
    /\ Done("add_data_new.augment")
    /\ call.n_channels = 2 /\ call.flags = {"fliplr", "elastic"}
    /\ call.draws["fliplr"] = 1 /\ call.draws["elastic"] = 1
    /\ call.result.truth.ops = << <<"fliplr", 1>>, <<"elastic", 1>> >>
    /\ call.result.data[2].ops = call.result.truth.ops

\* The call appended nothing / one element to each of the two lists.
AppendedNone == call.result.x = call.x_list /\ call.result.y = call.y_list

AppendedOne ==
    /\ Len(call.result.x) = Len(call.x_list) + 1
    /\ Len(call.result.y) = Len(call.y_list) + 1
    /\ SubSeq(call.result.x, 1, Len(call.x_list)) = call.x_list
    /\ SubSeq(call.result.y, 1, Len(call.y_list)) = call.y_list

\* C16: add_data with skip_blank=True appends nothing when the fetched
\* target is entirely zero and otherwise one element to each list; with
\* skip_blank=False it always appends one element to each; the two lists
\* keep equal length.
C16_AddDataFrame ==
    Done("add_data") =>
        /\ (call.skip_blank /\ ~AnyForeground(call.fetched)) => AppendedNone
        /\ ~(call.skip_blank /\ ~AnyForeground(call.fetched)) => AppendedOne
        /\ Len(call.result.x) = Len(call.result.y)

\* C16 as the code has it: the blank test is made on the target after
\* augmentation and permutation, and a call that raises appends nothing.
C16_AddDataFrameAfterAugment ==
    Done("add_data") =>
        /\ call.result.raised # "none" => AppendedNone
        /\ (call.result.raised = "none"
                /\ call.skip_blank /\ ~AnyForeground(call.result.truth)) => AppendedNone
        /\ (call.result.raised = "none"
                /\ ~(call.skip_blank /\ ~AnyForeground(call.result.truth))) => AppendedOne
        /\ Len(call.result.x) = Len(call.result.y)

\* C16 witness: skip_blank=True, the blank record 1 as a whole volume, lists
\* that hold one sample: both lists come back as they were.
C16_Witness ==
    /\ Done("add_data") /\ call.skip_blank /\ call.patch_shape = None
    /\ call.index = 1 /\ call.file.truth[1] = {} /\ Len(call.x_list) = 1
    /\ call.result.raised = "none"
    /\ call.result.x = call.x_list /\ Len(call.result.y) = 1

\* C21: convert_data25d returns the stacked inputs as they are and, as
\* target, for every sample and channel the single value of the converted
\* target at slice floor(D / 2) of the last axis (one dimension fewer than
\* the stack); for odd D that slice has as many slices before it as after.
C21_CentralSlice ==
    (Done("convert_data25d") /\ ~call.result.raised) =>
        /\ call.result.x = call.x_list
        /\ Len(call.result.y) = Len(call.y_list)
        /\ \A s \in DOMAIN call.y_list :
              LET depth == Len(call.y_list[s])
                  mid == (depth \div 2) + 1
                  v == call.y_list[s][mid]
              IN  /\ depth % 2 = 1 => mid - 1 = depth - mid
                  /\ Len(call.result.y[s]) = Max(call.n_labels, 1)
                  /\ \A c \in DOMAIN call.result.y[s] :
                        call.result.y[s][c] =
                            IF call.n_labels = 0 THEN v
                            ELSE IF call.n_labels = 1 THEN (IF v > 0 THEN 1 ELSE 0)
                            ELSE IF call.labels = None
                                 THEN (IF v = c THEN 1 ELSE 0)
                                 ELSE (IF v = call.labels[c] THEN 1 ELSE 0)

\* C21 witness: one target of two slices <<0, 2>>, n_labels = 1: the slice of
\* index 1 is selected and the target is the value 1.
C21_Witness ==
    /\ Done("convert_data25d") /\ ~call.result.raised
    /\ call.y_list = << <<0, 2>> >> /\ call.n_labels = 1
    /\ call.result.x = <<1>> /\ call.result.y = << <<1>> >>

\* The transforms of the set flags in the order flip-vertical,
\* flip-horizontal, elastic, rotation, shift, shear, zoom.
FixedOrder(flags) ==
    SelectSeq(<<"flipud", "fliplr", "elastic", "rotation", "shift", "shear", "zoom">>,
              LAMBDA kind : kind \in flags)

\* The kinds of the transforms applied to the array a, first to last.
KindsOf(a) == [i \in 1..Len(a.ops) |-> a.ops[i][1]]

\* C22: for every subset of enabled transforms, what augment_data_new has
\* applied to an array is the enabled transforms in the order flip-vertical,
\* flip-horizontal, elastic, rotation, shift, shear, zoom, each once and on
\* top of the previous ones, and no disabled transform.
C22_FixedOrder ==
    Done("add_data_new.augment") =>
        \A a \in Range(call.result.data) \cup {call.result.truth} :
            KindsOf(a) = FixedOrder(call.flags)

\* C22 witness: flip-horizontal, rotation and zoom enabled, one channel: the
\* target went through exactly these three, in this order.
C22_Witness ==
    /\ Done("add_data_new.augment")
    /\ call.flags = {"zoom", "fliplr", "rotation"}
    /\ KindsOf(call.result.truth) = <<"fliplr", "rotation", "zoom">>

\* C23: each of the seven transforms is toggled on its own, end to end: a
\* transform is applied to the samples of data_generator_new and of
\* data_generator25d exactly when its flag given to the generator is on,
\* whatever the other flags.
C23_IndependentToggles ==
    Done("generator.augment") =>
        \A kind \in Range(AugmentKinds) :
            (kind \in Range(KindsOf(call.result.truth))) <=> (kind \in call.flags)

\* C24: elastic_transform_multi returns a result list exactly when every
\* element of its list is a 2D array or a 2D array with a trailing singleton
\* channel; for an element of another rank, or with a trailing channel that
\* is not a singleton, it raises and returns no list.
C24_ElasticRank ==
    Done("elastic_transform_multi") =>
        /\ (call.result.raised = "none") <=>
                (\A k \in DOMAIN call.x :
                    Len(call.x[k]) = 2 \/ (Len(call.x[k]) = 3 /\ call.x[k][3] = 1))
        /\ call.result.raised # "none" => call.result.results = None

\* The last three extents of the data add_data fetched.
FetchedShape == IF call.patch_shape # None THEN call.patch_shape ELSE call.file.shape

\* C25: add_data with permute on data whose last three extents are not all
\* equal raises the error and appends nothing to x_list or y_list; when the
\* three extents are equal it does not raise.
C25_PermuteNeedsCube ==
    (Done("add_data") /\ call.permute) =>
        IF FetchedShape[1] = FetchedShape[2] /\ FetchedShape[2] = FetchedShape[3]
        THEN call.result.raised = "none"
        ELSE call.result.raised = "ValueError" /\ AppendedNone

\* C25 witness: permute on the labelled whole volume 2 of extents
\* <<2, 2, MaxDepth>>, skip_blank off, lists holding one sample: ValueError,
\* and both lists are as they were.
C25_Witness ==
    /\ Done("add_data") /\ call.permute /\ ~call.skip_blank
    /\ call.patch_shape = None /\ call.index = 2
    /\ Len(call.x_list) = 1
    /\ call.result.raised = "ValueError"
    /\ call.result.x = call.x_list /\ call.result.y = call.y_list

(***************************************************************************)
(* Properties of two interleaved instances (DuoSpec).                      *)
(***************************************************************************)
\* Frame f has drained an epoch's pool as an instance running alone does:
\* the pool is the one built from the list it was given, every sample of it
\* was delivered once, in batches of batch_size except a smaller last one.
AloneEpoch(f) ==
    /\ f.epoch >= 1 =>
          \E draws \in Draws(f.args.index_list, f.args.patch_start_offset) :
              f.epoch_pool = EpochPool(f.args, f.args.index_list, draws)
    /\ (f.pc = "begin" /\ f.epoch >= 1 /\ f.dropped = <<>>) =>
          /\ SameBag(Flatten(f.yielded), f.epoch_pool)
          /\ \A k \in 1..Len(f.yielded) :
                Len(f.yielded[k]) =
                    (IF k < Len(f.yielded) \/ Len(f.epoch_pool) % f.args.batch_size = 0
                     THEN f.args.batch_size
                     ELSE Len(f.epoch_pool) % f.args.batch_size)

C28_CallerListUntouched ==
    \A i \in DOMAIN frames :
        /\ caller_list = frames[i].args.index_list
        /\ frames[i].epoch >= 1 =>
              /\ frames[i].pool.own
              /\ Len(PoolItems(frames[i])) <= Len(frames[i].epoch_pool)

\* C28 witness: a data_generator over whole volumes, in a later epoch, has
\* popped its whole pool; the caller's list still holds its two records.
C28_Witness ==
    /\ frames # <<>>
    /\ frames[2].args.fn = "data_generator" /\ frames[2].args.patch_shape = None
    /\ frames[2].epoch = MaxEpochs /\ PoolItems(frames[2]) = <<>>
    /\ frames[1].args.patch_shape # None /\ frames[1].epoch >= 1
    /\ caller_list = <<1, 2>>

(***************************************************************************)
(* Properties of the two generators of a builder (PairSpec).               *)
(***************************************************************************)
\* C29: every sample in a batch of the training generator a builder returns
\* has a record id of the training list, every sample in a batch of the
\* validation generator one of the validation list; when the two lists are
\* disjoint no record is delivered by both generators.
C29_RecordsFromOwnList ==
    /\ frames[1].delivered \subseteq Range(split_files.training)
    /\ frames[2].delivered \subseteq Range(split_files.validation)
    /\ Range(split_files.training) \cap Range(split_files.validation) = {} =>
            frames[1].delivered \cap frames[2].delivered = {}

\* C29 witness: the split <<1, 2>> / <<3>>: the training generator has
\* delivered records 1 and 2, the validation generator record 3.
C29_Witness ==
    /\ split_files.training = <<1, 2>> /\ split_files.validation = <<3>>
    /\ frames[1].delivered = {1, 2}
    /\ frames[2].delivered = {3}

\* C30: whatever flags and training_patch_start_offset the builder is given,
\* the validation generator has no start offset and no augmentation flag,
\* none of its samples is augmented and the pool it builds is the same in
\* every epoch; the training generator has the builder's flags and offset.
C30_ValidationPlain ==
    /\ frames[2].args.patch_start_offset = None
    /\ frames[2].args.flags = {}
    /\ frames[2].augmented = {}
    /\ Cardinality(frames[2].pools) <= 1
    /\ frames[1].args.flags = build.flags
    /\ frames[1].args.patch_start_offset = build.training_patch_start_offset

\* C30 witness: the builder was given flags and a start offset; the training
\* generator has built two different pools and augmented its samples, the
\* validation generator is in a later epoch with the one pool it builds.
C30_Witness ==
    /\ build.flags # {} /\ build.training_patch_start_offset # None
    /\ Cardinality(frames[1].pools) = 2 /\ frames[1].augmented # {}
    /\ frames[2].epoch = MaxEpochs /\ frames[2].delivered # {}
    /\ Cardinality(frames[2].pools) = 1

(***************************************************************************)
(* Properties of the split (SplitSpec).                                    *)
(***************************************************************************)
\* C12: the builders honour overwrite: with overwrite=False and the files
\* present the persisted lists are reused unchanged; with overwrite=True the
\* split is regenerated and written out.
C12_OverwriteHonoured ==
    (Done("split") /\ call.result.raised = "none") =>
        /\ (~call.overwrite /\ call.files_before # None) =>
              /\ call.result.split = call.files_before
              /\ split_files = call.files_before
        /\ call.overwrite =>
              /\ call.result.regenerated
              /\ split_files = call.result.split

\* C13: after the split is created or loaded, the training, validation and
\* testing ids are pairwise disjoint and together are the record ids of the
\* store.
C13_SplitIsPartition ==
    (Done("split") /\ call.result.raised = "none") =>
        LET sp == call.result.split
        IN  /\ Range(sp.training) \cap Range(sp.validation) = {}
            /\ Range(sp.training) \cap Range(sp.testing) = {}
            /\ Range(sp.validation) \cap Range(sp.testing) = {}
            /\ Range(sp.training) \cup Range(sp.validation) \cup Range(sp.testing)
                  = Range(StoreIds(data_file))
====
